---- MODULE Spec2Model ----
(***************************************************************************)
(* Model of the incremental synchronisation engine of the HPL3 exporter    *)
(* (io_export_hpl3.py): the map document (file index + object rows), the   *)
(* asset tracking ledger, one export pass of OBJECT_OT_HPL3_Export.execute *)
(* and the reconciliation of sync_blender_deletions.                       *)
(***************************************************************************)
EXTENDS Integers, Sequences, FiniteSets, TLC

\* ------------------------------------------------------------------------
\* Bounds of the model
\* ------------------------------------------------------------------------
\* number of export passes (invocations of execute) in one behaviour
MaxPasses == 2
\* number of files whose os.remove fails in one deletion episode
MaxFail == 1

\* ------------------------------------------------------------------------
\* Domains
\* ------------------------------------------------------------------------
\* characters kept by the name sanitisation
Alnum == {"a", "b", "c"}
\* raw names of the objects of the blender scene, in the order in which
\* bpy.context.selected_objects lists them
ObjOrder == <<<<"a">>, <<"b">>, <<"c", ".">>>>
ObjNames == {ObjOrder[i] : i \in 1..Len(ObjOrder)}
Rank(name) == CHOOSE i \in 1..Len(ObjOrder) : ObjOrder[i] = name
\* sanitised names of the mesh datablocks; "Chair" and "chair" differ by case
Meshes == {"chair", "Chair", "lamp"}
\* suffixes of the baked texture files of one geometry
TexSuffixes == {"_d.dds", "_n.dds"}
\* texture lists that a bake produces for one geometry
TexLists == {<<"_d.dds">>, <<"_d.dds", "_n.dds">>}

\* characters of the raw object names: "." and "_" are outside [0-9a-zA-Z]
Chars == Alnum \cup {".", "_"}
\* longest raw object name whose sanitisation is examined
MaxLen == 3
\* the raw object names of at most MaxLen characters
RawNames == UNION {[1..n -> Chars] : n \in 0..MaxLen}

Unbound == "Unbound"
\* the empty short name ""
EmptyName == <<>>

\* legacy base constants of the row IDs
StaticObjectBaseID == 285212672
EntityBaseID == 268435459

\* files are written <<mesh, suffix>>: ".../<mesh>/<mesh><suffix>"
AllFiles == Meshes \X ({".dae", ".ent", ".msh"} \cup TexSuffixes)

\* ------------------------------------------------------------------------
\* Pure helpers
\* ------------------------------------------------------------------------
RECURSIVE DropNonAlnum(_)
DropNonAlnum(s) ==
    IF s = <<>> THEN <<>>
    ELSE IF Head(s) \in Alnum THEN s
    ELSE DropNonAlnum(Tail(s))

\* re.sub('[^0-9a-zA-Z]+', '_', name)
RECURSIVE Sanitize(_)
Sanitize(s) ==
    IF s = <<>> THEN <<>>
    ELSE IF Head(s) \in Alnum THEN <<Head(s)>> \o Sanitize(Tail(s))
    ELSE <<"_">> \o Sanitize(DropNonAlnum(Tail(s)))

\* str.lower() on a mesh name
LowerName(m) == IF m = "Chair" THEN "chair" ELSE m

\* str.lower() on a short path
Lower(f) == <<LowerName(f[1]), f[2]>>

\* short path of the geometry of a mesh as stored in the file index
IndexPath(mesh, is_ent) == <<mesh, IF is_ent THEN ".ent" ELSE ".dae">>

\* short path of the .dae of a mesh as stored in the ledger
DaePath(mesh) == <<mesh, ".dae">>

\* re.sub(r'ent$', 'dae', dae_path)
EntToDae(f) == IF f[2] = ".ent" THEN <<f[1], ".dae">> ELSE f

\* re.sub(r'.dae', '.msh', DAEpath)
DaeToMsh(f) == IF f[2] = ".dae" THEN <<f[1], ".msh">> ELSE f

SeqToSet(s) == {s[i] : i \in 1..Len(s)}

RemoveAt(s, i) == SubSeq(s, 1, i - 1) \o SubSeq(s, i + 1, Len(s))

\* position of the first element of s satisfying Test, 0 when there is none
FirstIndex(s, Test(_)) ==
    IF \E i \in 1..Len(s) : Test(s[i])
    THEN CHOOSE i \in 1..Len(s) : Test(s[i]) /\ \A j \in 1..(i - 1) : ~Test(s[j])
    ELSE 0

\* position of the last element of s satisfying Test, 0 when there is none
LastIndex(s, Test(_)) ==
    IF \E i \in 1..Len(s) : Test(s[i])
    THEN CHOOSE i \in 1..Len(s) : Test(s[i]) /\ \A j \in (i + 1)..Len(s) : ~Test(s[j])
    ELSE 0

RECURSIVE SubsetsUpTo(_, _)
SubsetsUpTo(S, k) ==
    IF k = 0 THEN {{}}
    ELSE LET P == SubsetsUpTo(S, k - 1)
         IN P \cup {p \cup {f} : p \in P, f \in S}

\* ------------------------------------------------------------------------
\* Documents
\* ------------------------------------------------------------------------
\* a map document without the Blender@HPL3EXPORT section
EmptyMap == [hasSection |-> FALSE, NumOfFiles |-> 0, files |-> <<>>, objects |-> <<>>]

\* a map document with the section as add_object creates it
NewSection == [hasSection |-> TRUE, NumOfFiles |-> 0, files |-> <<>>, objects |-> <<>>]

\* the ledger file does not exist
NoLedger == [exists |-> FALSE, assets |-> <<>>]

\* ------------------------------------------------------------------------
\* get_asset_xml_entry: find or create the ledger entry of a mesh
\* ------------------------------------------------------------------------
get_asset_xml_entry(assets, mesh) ==
    LET short_path == DaePath(mesh)
        Match(a) == a.DAEpath = short_path
        found == FirstIndex(assets, Match)
    IN IF found # 0
       THEN [asset_xml |-> assets, current_DAE |-> found]
       ELSE [asset_xml |-> Append(assets, [DAEpath |-> short_path, Uses |-> 0,
                                            hasDDS |-> FALSE, DDSpath |-> <<>>]),
             current_DAE |-> Len(assets) + 1]

\* ------------------------------------------------------------------------
\* add_object: resolve the file index entry and upsert the row of an object
\* ------------------------------------------------------------------------
\* (mutant) the appended File entry repeats the Id of the last entry
NewFileIdSame(files) ==
    IF files = <<>> THEN 0 ELSE files[Len(files)].Id

\* Id given to a File entry that is appended to the file index
NewFileId(files) ==
    IF files = <<>> THEN 0 ELSE files[Len(files)].Id + 1

\* (mutant) the ID is the base constant plus the number of rows
NewRowIDByCount(objects, is_ent) ==
    (IF is_ent THEN EntityBaseID ELSE StaticObjectBaseID) + Len(objects)

\* ID given to a row that is appended to the Objects list
NewRowID(objects, is_ent) ==
    IF objects # <<>> THEN objects[Len(objects)].ID + 1
    ELSE IF is_ent THEN EntityBaseID ELSE StaticObjectBaseID

\* (mutant) NumOfFiles is left as it is when a File entry is appended
NumOfFilesAfterInsertSame(num_of_files) == num_of_files

\* the NumOfFiles attribute after a File entry was appended, lines 407-408
NumOfFilesAfterInsert(num_of_files) == num_of_files + 1

\* (mutant) the insertion of a File entry is not counted
UsesAfterInsertNever(uses, multi_mode) == uses

\* the Uses attribute of current_DAE after a File entry was inserted
UsesAfterInsert(uses, multi_mode) ==
    IF multi_mode = "MULTI" THEN uses + 1 ELSE uses

\* (mutant) the update of a row renews its creation stamp as well
UpdatedRowRestamped(row, now, existing_index) ==
    [row EXCEPT !.CreStamp = now, !.ModStamp = now, !.FileIndex = existing_index]

\* the row of an object that is exported again, lines 468-491: ID and
\* CreStamp stay, ModStamp and FileIndex are overwritten
UpdatedRow(row, now, existing_index) ==
    [row EXCEPT !.ModStamp = now, !.FileIndex = existing_index]

add_object(doc, assets, cur, multi_mode, is_ent, obj_name, mesh, now) ==
    LET section == IF ~doc.hasSection THEN NewSection ELSE doc
        short_path == IndexPath(mesh, is_ent)
        files == section.files
        MatchPath(f) == f.Path = short_path
        found == FirstIndex(files, MatchPath)
        existing_index == IF found # 0 THEN files[found].Id ELSE NewFileId(files)
        files2 == IF found # 0 THEN files
                  ELSE Append(files, [Id |-> existing_index, Path |-> short_path])
        num2 == IF found # 0 THEN section.NumOfFiles
                ELSE NumOfFilesAfterInsert(section.NumOfFiles)
        assets2 == IF found # 0 THEN assets
                   ELSE [assets EXCEPT ![cur].Uses = UsesAfterInsert(@, multi_mode)]
        objects == section.objects
        lastID == NewRowID(objects, is_ent)
        MatchName(r) == r.Name = obj_name
        old == FirstIndex(objects, MatchName)
        objects2 ==
            IF old # 0
            THEN [objects EXCEPT ![old] = UpdatedRow(@, now, existing_index)]
            ELSE Append(objects, [Name |-> obj_name, ID |-> lastID, CreStamp |-> now,
                                  ModStamp |-> now, FileIndex |-> existing_index])
    IN [root |-> [hasSection |-> TRUE, NumOfFiles |-> num2, files |-> files2,
                  objects |-> objects2],
        asset_xml |-> assets2]

\* ------------------------------------------------------------------------
\* delete_by_shortname / delete_assets: removal of files on disk
\*   failing - the files whose os.remove raises something else than
\*             FileNotFoundError
\* ------------------------------------------------------------------------
delete_by_shortname(shortname, failing) ==
    IF shortname # EmptyName /\ shortname \in failing THEN 1 ELSE 0

delete_assets(shortname_list, failing) ==
    LET Failed(entry) == delete_by_shortname(entry, failing) = 1
    IN SelectSeq(shortname_list, Failed)

\* ------------------------------------------------------------------------
\* delete_unused_textures: record the new texture list of every exported
\* geometry, deleting the textures that are no longer produced
\*   keys   - the geometries of exported_maps, in insertion order
\*   newtex - exported_maps: the texture suffixes exported for each mesh
\* ------------------------------------------------------------------------
RECURSIVE MergeOldTextures(_, _, _, _)
MergeOldTextures(old, i, list, failing) ==
    IF i > Len(old) THEN list
    ELSE LET texture == old[i]
             exists == \E k \in 1..Len(list) : Lower(texture) = Lower(list[k])
         IN IF ~exists /\ delete_by_shortname(texture, failing) = 1
            THEN MergeOldTextures(old, i + 1, Append(list, texture), failing)
            ELSE MergeOldTextures(old, i + 1, list, failing)

\* the asset entry that receives the texture list of the geometry key
MatchingEntry(assets, key) ==
    LET Match(a) == Lower(a.DAEpath) = Lower(key)
    IN LastIndex(assets, Match)

RECURSIVE delete_unused_textures(_, _, _, _, _)
delete_unused_textures(assets, keys, i, newtex, failing) ==
    IF i > Len(keys) THEN assets
    ELSE LET mesh == keys[i]
             key == DaePath(mesh)
             fresh == [k \in 1..Len(newtex[mesh]) |-> <<mesh, newtex[mesh][k]>>]
             matching_entry == MatchingEntry(assets, key)
             old == IF assets[matching_entry].hasDDS
                    THEN assets[matching_entry].DDSpath ELSE <<>>
             assets2 ==
                 IF matching_entry = 0 THEN assets
                 ELSE [assets EXCEPT ![matching_entry] =
                          [@ EXCEPT !.hasDDS = TRUE,
                                    !.DDSpath = MergeOldTextures(old, 1, fresh, failing)]]
         IN delete_unused_textures(assets2, keys, i + 1, newtex, failing)

\* the old textures that delete_unused_textures tries to remove for one entry
TexturesToDrop(old, fresh) ==
    {old[i] : i \in {j \in 1..Len(old) :
                        \A k \in 1..Len(fresh) : Lower(old[j]) # Lower(fresh[k])}}

\* ------------------------------------------------------------------------
\* sync_blender_deletions: remove the rows without a blender object
\*   live    - the sanitised names of the objects of the blender scene
\*   failing - the files whose os.remove fails
\* The loop state st holds the section (NumOfFiles, files, objects), the
\* ledger (assets), entries_to_remove (positions in objects), the local
\* files_to_delete, and how the function left the loop (status).
\* ------------------------------------------------------------------------
\* (mutant) the entry is removed and the higher Ids are left as they are
RenumberFilesNoShift(files, removed_idx) ==
    LET IsRemoved(f) == f.Id = removed_idx
    IN RemoveAt(files, LastIndex(files, IsRemoved))

\* the File list after the removal of the entry with Id removed_idx
RenumberFiles(files, removed_idx) ==
    LET IsRemoved(f) == f.Id = removed_idx
        remove == LastIndex(files, IsRemoved)
        shifted == [i \in 1..Len(files) |->
                      IF files[i].Id = removed_idx THEN files[i]
                      ELSE IF files[i].Id > removed_idx
                           THEN [files[i] EXCEPT !.Id = @ - 1]
                           ELSE files[i]]
    IN RemoveAt(shifted, remove)

\* (mutant) the rows keep their FileIndex when a File entry is removed
RenumberRowsSkipped(objects, removed_idx) ==
    [i \in 1..Len(objects) |-> objects[i]]

\* the rows after the removal of the File entry with Id removed_idx
RenumberRows(objects, removed_idx) ==
    [i \in 1..Len(objects) |->
        IF objects[i].FileIndex > removed_idx
        THEN [objects[i] EXCEPT !.FileIndex = @ - 1]
        ELSE objects[i]]

\* (mutant) an asset with two uses is purged as well
IsLastUseAtTwo(uses) == uses <= 2

\* is the asset purged (files deleted, entry removed) rather than decremented
IsLastUse(uses) == uses = 1 \/ uses = 0

\* is the File entry of the orphan at position i still used by another row
InUse(objects, i, removed) ==
    \E j \in 1..Len(objects) :
        /\ objects[j].FileIndex = objects[i].FileIndex
        /\ objects[j].Name # objects[i].Name
        /\ j \notin removed

\* the purge of one asset: lines 2086-2099
PurgeAsset(st, a, failing) ==
    LET asset == st.assets[a]
        unbound == ~asset.hasDDS /\ st.files_to_delete = Unbound
        base == IF asset.hasDDS THEN asset.DDSpath ELSE st.files_to_delete
        files_to_delete == base \o <<asset.DAEpath, DaeToMsh(asset.DAEpath)>>
        leftover_files == delete_assets(files_to_delete, failing)
    IN IF unbound THEN [st EXCEPT !.status = "crash"]
       ELSE [st EXCEPT !.files_to_delete = files_to_delete,
                       !.assets = RemoveAt(st.assets, a),
                       !.purged = @ \cup {asset.DAEpath},
                       !.submitted = @ \cup SeqToSet(files_to_delete),
                       !.leftover = @ \cup SeqToSet(leftover_files),
                       !.status = IF leftover_files # <<>> THEN "return1" ELSE "run"]

\* the body of the loop for the orphan at position i: lines 2045-2101
RemoveOrphan(st, i, is_ent, failing) ==
    LET entry == st.objects[i]
        removed_idx == entry.FileIndex
        removed == st.entries_to_remove \cup {i}
        st1 == [st EXCEPT !.entries_to_remove = removed,
                          !.orphans = @ \cup {entry.Name}]
        IsRemoved(f) == f.Id = removed_idx
        remove == LastIndex(st.files, IsRemoved)
        dae_path == IF is_ent THEN EntToDae(st.files[remove].Path)
                    ELSE st.files[remove].Path
        st2 == [st1 EXCEPT !.NumOfFiles = @ - 1,
                           !.files = RenumberFiles(st.files, removed_idx),
                           !.objects = RenumberRows(st.objects, removed_idx),
                           !.compacted = @ \cup {<<entry.Name, st.files[remove].Path>>}]
        IsListed(a) == a.DAEpath = dae_path
        asset == FirstIndex(st.assets, IsListed)
    IN IF InUse(st.objects, i, removed) THEN st1
       ELSE IF remove = 0 THEN [st1 EXCEPT !.status = "crash"]
       ELSE IF asset = 0 THEN st2
       ELSE IF IsLastUse(st.assets[asset].Uses) THEN PurgeAsset(st2, asset, failing)
       ELSE [st2 EXCEPT !.assets[asset].Uses = @ - 1,
                        !.decremented = @ \cup {dae_path}]

RECURSIVE SyncLoop(_, _, _, _, _)
SyncLoop(st, i, live, is_ent, failing) ==
    IF i > Len(st.objects) \/ st.status # "run" THEN st
    ELSE IF st.objects[i].Name \in live
         THEN SyncLoop(st, i + 1, live, is_ent, failing)
         ELSE SyncLoop(RemoveOrphan(st, i, is_ent, failing), i + 1, live, is_ent, failing)

\* the rows that are left after objects.remove(entry) for entries_to_remove
EraseEntries(objects, entries_to_remove) ==
    LET Keep(i) == i \notin entries_to_remove
        kept == {i \in 1..Len(objects) : Keep(i)}
        Nth(k) == CHOOSE i \in kept : Cardinality({j \in kept : j < i}) = k - 1
    IN [k \in 1..Cardinality(kept) |-> objects[Nth(k)]]

\* the loop state before the first row is visited
SyncStart(section, assets) ==
    [NumOfFiles |-> section.NumOfFiles, files |-> section.files,
     objects |-> section.objects, assets |-> assets,
     entries_to_remove |-> {}, files_to_delete |-> Unbound,
     status |-> "run", orphans |-> {}, compacted |-> {},
     purged |-> {}, decremented |-> {}, submitted |-> {}, leftover |-> {}]

sync_blender_deletions(doc, assets, live, is_ent, failing) ==
    IF ~doc.hasSection
    THEN [SyncStart(doc, assets) EXCEPT !.status = "empty"]
    ELSE LET st == SyncLoop(SyncStart(doc, assets), 1, live, is_ent, failing)
         IN IF st.status = "run"
            THEN [st EXCEPT !.objects = EraseEntries(st.objects, st.entries_to_remove),
                            !.status = "return0"]
            ELSE st

\* ------------------------------------------------------------------------
\* State of the program
\* ------------------------------------------------------------------------
VARIABLES
    disk_map,      \* the map documents on disk, by entity_option
    disk_ledger,   \* exportscript_asset_tracking.xml on disk
    root,          \* self.root: the map document in memory
    asset_xml,     \* self.asset_xml: the ledger in memory
    current_DAE,   \* self.current_DAE: position of the current ledger entry
    opts,          \* the export settings of the pass (hpl3export)
    dupes,         \* the objects exported so far in the pass: <<name, mesh>>
    pc,            \* the position of execute
    passes,        \* number of passes started
    pre,           \* the documents on disk when the pass started
    log,           \* what the steps of the pass did
    on_disk,       \* what ET.parse finds for each document file
    obj_name,      \* one object name: ob.name, the stored and the recomputed name
    rig,           \* one object with its modifiers, and the placement of its row
    hpm            \* a map document with the sections that the exporter did not
                   \* create, and the ledger that goes with it

vars == <<disk_map, disk_ledger, root, asset_xml, current_DAE, opts, dupes, pc,
          passes, pre, log, on_disk, obj_name, rig, hpm>>

\* the document files: the two map files and the ledger file
Documents == {"OP1", "OP2", "ledger"}
\* a file that parses, a file that does not exist (IOError), a file that is
\* not well-formed XML (ParseError)
FileStates == {"parsed", "missing", "malformed"}

EntityOptions == {"OP1", "OP2"}
MultiModes == {"MULTI", "SINGLE"}
BakeOptions == {"OP1", "OP2", "OP3"}

\* the settings of a pass
Options(entity_options, modes, blanks, syncs, bakes, times) ==
    [entity_option : entity_options, multi_mode : modes, blank : blanks,
     sync_blender_deletions : syncs, bake_multi_mat_into_single : bakes,
     now : times]

NoSync == [SyncStart(NewSection, <<>>) EXCEPT !.status = "notrun"]

NoLog == [outcome |-> "running", written_map |-> FALSE, written_ledger |-> FALSE,
          bake_failed |-> FALSE, live |-> {}, sync_root |-> EmptyMap,
          sync_assets |-> <<>>, sync |-> NoSync, tex_assets |-> <<>>,
          tex_keys |-> <<>>, tex_new |-> <<>>, tex_failing |-> {}, tex_after |-> <<>>,
          tex_ran |-> FALSE, convert_failed |-> FALSE]

is_ent == opts.entity_option = "OP2"

\* (mutant) the reconciliation runs whenever there is a map
SyncOptedInAlways(o) == ~o.blank

\* the condition of line 297 for the call of sync_blender_deletions
SyncOptedIn(o) == ~o.blank /\ o.sync_blender_deletions

\* (mutant) the rows are written whether or not a map path is given
MapExportedAlways(o) == TRUE

\* the condition of lines 291 and 322 for the call of add_object
MapExported(o) == ~o.blank

\* the steps of export_objects and execute, in the order of the code
Stages(o) ==
    LET bake == IF o.bake_multi_mat_into_single # "OP3" THEN <<"bake">> ELSE <<>>
        tex == IF o.bake_multi_mat_into_single # "OP3" THEN <<"textures">> ELSE <<>>
        sync == IF SyncOptedIn(o) THEN <<"sync">> ELSE <<>>
    IN IF o.multi_mode = "MULTI"
       THEN <<"export">> \o bake \o tex \o sync
       ELSE bake \o <<"export">> \o tex

\* (mutant) execute writes the documents whether or not the export failed
AfterExportAlways(o, error) ==
    IF ~o.blank THEN "write_map" ELSE "write_ledger"

\* execute after export_objects: the commit is skipped when ExportError was
\* caught, lines 2213-2227
AfterExport(o, error) ==
    IF error THEN "idle" ELSE AfterExportAlways(o, error)

\* the step that follows a step of export_objects
NextStage(o, stage) ==
    LET st == Stages(o)
        i == CHOOSE k \in 1..Len(st) : st[k] = stage
    IN IF i = Len(st) THEN AfterExport(o, FALSE) ELSE st[i + 1]

\* no object name is examined
NoName == [raw |-> <<>>, stored |-> <<>>, recomputed |-> <<>>, step |-> "new"]

\* no object is placed
NoRig == [own |-> <<>>, modifiers |-> <<>>, row |-> <<>>, step |-> "none"]

\* no map document with foreign sections is examined
NoHpm == [sections |-> <<>>, assets |-> <<>>, authored |-> <<>>, orphans |-> {},
          steps |-> 0]

Init ==
    /\ disk_map = [k \in EntityOptions |-> EmptyMap]
    /\ disk_ledger = NoLedger
    /\ root = EmptyMap
    /\ asset_xml = <<>>
    /\ current_DAE = 0
    /\ opts = [entity_option |-> "OP1", multi_mode |-> "MULTI", blank |-> FALSE,
               sync_blender_deletions |-> FALSE,
               bake_multi_mat_into_single |-> "OP3", now |-> 0]
    /\ dupes = <<>>
    /\ pc = "idle"
    /\ passes = 0
    /\ on_disk = [d \in Documents |-> IF d = "ledger" THEN "missing" ELSE "parsed"]
    /\ pre = [map |-> disk_map, ledger |-> disk_ledger, on_disk |-> on_disk]
    /\ log = NoLog
    /\ obj_name = NoName
    /\ rig = NoRig
    /\ hpm = NoHpm

\* the files that the ledger lists: textures, .dae and .msh of every entry
LedgerFiles(assets) ==
    UNION {SeqToSet(assets[i].DDSpath) \cup {assets[i].DAEpath, DaeToMsh(assets[i].DAEpath)}
           : i \in 1..Len(assets)}

\* the sets of files whose removal may fail in one step
FailingSets(assets) == SubsetsUpTo(LedgerFiles(assets), MaxFail)

\* the meshes of the exported objects, in the order of their first export
RECURSIVE MeshKeys(_, _)
MeshKeys(d, i) ==
    IF i > Len(d) THEN <<>>
    ELSE IF \E j \in 1..(i - 1) : d[j][2] = d[i][2] THEN MeshKeys(d, i + 1)
    ELSE <<d[i][2]>> \o MeshKeys(d, i + 1)

\* ------------------------------------------------------------------------
\* execute: start of a pass, lines 2164-2211
\* ------------------------------------------------------------------------
\* (mutant) a map file that does not exist is read as an empty document
MapReadableOrMissing(state) == state # "malformed"

\* ET.parse(map_file_path) raises neither IOError nor ParseError, line 2180
MapReadable(state) == state = "parsed"

\* self.asset_xml after lines 2205-2209: the parsed ledger, or a new empty
\* one after IOError or ParseError
LoadLedger(state, ledger) == IF state = "parsed" THEN ledger.assets ELSE <<>>

BeginPass(option_set, max_passes) ==
    /\ pc = "idle"
    /\ passes < max_passes
    /\ \E o \in option_set :
        /\ opts' = o
        /\ o.now >= opts.now    \* time.time() does not go back
        /\ IF ~o.blank /\ ~MapReadable(on_disk[o.entity_option])
           THEN \* 'Map file could not be opened.': execute returns
                /\ pc' = "idle"
                /\ log' = [NoLog EXCEPT !.outcome = "refused"]
                /\ root' = EmptyMap
                /\ asset_xml' = <<>>
           ELSE /\ root' = IF o.blank THEN EmptyMap ELSE disk_map[o.entity_option]
                /\ asset_xml' = LoadLedger(on_disk["ledger"], disk_ledger)
                /\ pc' = Stages(o)[1]
                /\ log' = NoLog
    /\ current_DAE' = 0
    /\ dupes' = <<>>
    /\ passes' = passes + 1
    /\ pre' = [map |-> disk_map, ledger |-> disk_ledger, on_disk |-> on_disk]
    /\ UNCHANGED <<disk_map, disk_ledger, on_disk, obj_name, rig, hpm>>

\* ------------------------------------------------------------------------
\* export_objects: one iteration of the loop over the duplicates (MULTI,
\* lines 272-292) or the export of the active object (SINGLE, lines 321-323)
\* ------------------------------------------------------------------------
ExportObject(names, meshes) ==
    /\ pc = "export"
    /\ \E name \in names, mesh \in meshes :
        /\ \A i \in 1..Len(dupes) : Rank(dupes[i][1]) < Rank(name)
        /\ LET e == get_asset_xml_entry(asset_xml, mesh)
               r == add_object(root, e.asset_xml, e.current_DAE, opts.multi_mode,
                               is_ent, Sanitize(name), mesh, opts.now)
           IN /\ current_DAE' = e.current_DAE
              /\ IF MapExported(opts)
                 THEN /\ asset_xml' = r.asset_xml
                      /\ root' = r.root
                 ELSE /\ asset_xml' = e.asset_xml
                      /\ root' = root
        /\ dupes' = Append(dupes, <<name, mesh>>)
    /\ pc' = IF opts.multi_mode = "MULTI" THEN "export" ELSE NextStage(opts, "export")
    /\ UNCHANGED <<disk_map, disk_ledger, opts, passes, pre, log, on_disk, obj_name, rig, hpm>>

\* the loop over the duplicates ends
FinishExport ==
    /\ pc = "export"
    /\ opts.multi_mode = "MULTI"
    /\ pc' = NextStage(opts, "export")
    /\ UNCHANGED <<disk_map, disk_ledger, root, asset_xml, current_DAE, opts, dupes,
                   passes, pre, log, on_disk, obj_name, rig, hpm>>

\* ------------------------------------------------------------------------
\* bake_materials_and_save / bake, lines 1210-1262 and 1338-1351
\* ------------------------------------------------------------------------
\*   converts - the possible outcomes of export_textures: TRUE when the
\*              converter command returns non-zero or save_render raises
\*              PermissionError (lines 1400-1427); bake_materials_and_save
\*              drops the result of export_textures (line 1238)
Bake(converts) ==
    /\ pc = "bake"
    /\ \E failed \in converts :
         log' = [log EXCEPT !.convert_failed =
                            failed /\ (opts.multi_mode = "MULTI" => dupes # <<>>)]
    /\ pc' = NextStage(opts, "bake")
    /\ UNCHANGED <<disk_map, disk_ledger, root, asset_xml, current_DAE, opts, dupes,
                   passes, pre, on_disk, obj_name, rig, hpm>>

\* bpy.ops.object.bake raises RuntimeError: bake raises ExportError

BakeFails ==
    /\ pc = "bake"
    /\ opts.multi_mode = "MULTI" => dupes # <<>>
    /\ pc' = AfterExport(opts, TRUE)
    /\ log' = [log EXCEPT !.outcome = "aborted", !.bake_failed = TRUE]
    /\ UNCHANGED <<disk_map, disk_ledger, root, asset_xml, current_DAE, opts, dupes,
                   passes, pre, on_disk, obj_name, rig, hpm>>

\* ------------------------------------------------------------------------
\* delete_unused_textures, lines 1983-2018
\* ------------------------------------------------------------------------
\* the listed textures that no exported geometry produces any more
Droppable(assets, keys, newtex) ==
    {t \in UNION {SeqToSet(assets[i].DDSpath) : i \in 1..Len(assets)} :
        \A k \in 1..Len(keys) : \A n \in 1..Len(newtex[keys[k]]) :
            Lower(t) # Lower(<<keys[k], newtex[keys[k]][n]>>)}

DeleteUnusedTextures(texlists) ==
    /\ pc = "textures"
    /\ LET keys == MeshKeys(dupes, 1)
       IN \E newtex \in [SeqToSet(keys) -> texlists] :
          \E failing \in SubsetsUpTo(Droppable(asset_xml, keys, newtex), MaxFail) :
            /\ asset_xml' = delete_unused_textures(asset_xml, keys, 1, newtex, failing)
            /\ log' = [log EXCEPT !.tex_assets = asset_xml, !.tex_keys = keys,
                                  !.tex_new = newtex, !.tex_failing = failing,
                                  !.tex_after = asset_xml', !.tex_ran = TRUE]
    /\ pc' = NextStage(opts, "textures")
    /\ UNCHANGED <<disk_map, disk_ledger, root, current_DAE, opts, dupes, passes, pre,
                   on_disk, obj_name, rig, hpm>>

\* ------------------------------------------------------------------------
\* sync_blender_deletions as called by export_objects, lines 297-298
\* ------------------------------------------------------------------------
\* (mutant) export_objects gives up when sync_blender_deletions returns 1
AfterSyncStrict(o, status) ==
    IF status \in {"crash", "return1"} THEN "idle" ELSE NextStage(o, "sync")

\* execute after the call of line 298: an exception leaves execute, the
\* returned value is added to error and never read by execute
AfterSync(o, status) ==
    IF status = "crash" THEN "idle" ELSE NextStage(o, "sync")

SyncBlenderDeletions(names) ==
    /\ pc = "sync"
    /\ \E live \in SUBSET {Sanitize(n) : n \in names}, failing \in FailingSets(asset_xml) :
        /\ \A i \in 1..Len(dupes) : Sanitize(dupes[i][1]) \in live
        /\ LET res == sync_blender_deletions(root, asset_xml, live, is_ent, failing)
           IN /\ log' = [log EXCEPT !.live = live, !.sync_root = root,
                                    !.sync_assets = asset_xml, !.sync = res,
                                    !.outcome = IF res.status = "crash"
                                                THEN "crashed" ELSE @]
              /\ IF res.status \in {"crash", "empty"}
                 THEN UNCHANGED <<root, asset_xml>>
                 ELSE /\ root' = [hasSection |-> TRUE, NumOfFiles |-> res.NumOfFiles,
                                  files |-> res.files, objects |-> res.objects]
                      /\ asset_xml' = res.assets
              /\ pc' = AfterSync(opts, res.status)
    /\ UNCHANGED <<disk_map, disk_ledger, current_DAE, opts, dupes, passes, pre,
                   on_disk, obj_name, rig, hpm>>

\* ------------------------------------------------------------------------
\* execute: commit, lines 2222-2225
\* ------------------------------------------------------------------------
WriteMap ==
    /\ pc = "write_map"
    /\ disk_map' = [disk_map EXCEPT ![opts.entity_option] = root]
    /\ log' = [log EXCEPT !.written_map = TRUE]
    /\ on_disk' = [on_disk EXCEPT ![opts.entity_option] = "parsed"]
    /\ pc' = "write_ledger"
    /\ UNCHANGED <<disk_ledger, root, asset_xml, current_DAE, opts, dupes, passes, pre,
                   obj_name, rig, hpm>>

WriteLedger ==
    /\ pc = "write_ledger"
    /\ disk_ledger' = [exists |-> TRUE, assets |-> asset_xml]
    /\ log' = [log EXCEPT !.written_ledger = TRUE, !.outcome = "committed"]
    /\ on_disk' = [on_disk EXCEPT !["ledger"] = "parsed"]
    /\ pc' = "idle"
    /\ UNCHANGED <<disk_map, root, asset_xml, current_DAE, opts, dupes, passes, pre,
                   obj_name, rig, hpm>>

\* ElementTree.write raises (file not writable): the exception leaves execute
WriteFails ==
    /\ pc \in {"write_map", "write_ledger"}
    /\ log' = [log EXCEPT !.outcome = "crashed"]
    /\ pc' = "idle"
    /\ UNCHANGED <<disk_map, disk_ledger, root, asset_xml, current_DAE, opts, dupes,
                   passes, pre, on_disk, obj_name, rig, hpm>>

\* ------------------------------------------------------------------------
\* Specifications
\* ------------------------------------------------------------------------
NextOver(option_set, max_passes, names, meshes, texlists, converts) ==
    \/ BeginPass(option_set, max_passes)
    \/ ExportObject(names, meshes)
    \/ FinishExport
    \/ Bake(converts)
    \/ BakeFails
    \/ DeleteUnusedTextures(texlists)
    \/ SyncBlenderDeletions(names)
    \/ WriteMap
    \/ WriteLedger
    \/ WriteFails

\* every combination of the export settings, one object
AllOptions == Options(EntityOptions, MultiModes, BOOLEAN, BOOLEAN, BakeOptions, {0})

Next ==
    NextOver(AllOptions, MaxPasses, {<<"a">>, <<"b">>}, {"chair", "lamp"},
             {<<"_d.dds">>}, BOOLEAN)

Spec == Init /\ [][Next]_vars

\* one static-object map, multi export with baked textures and
\* reconciliation in every pass, three objects
IndexOptions == Options({"OP1"}, {"MULTI"}, {FALSE}, {TRUE}, {"OP1"}, {0})

NextIndex ==
    NextOver(IndexOptions, MaxPasses, ObjNames, Meshes, {<<"_d.dds">>}, {FALSE})

SpecIndex == Init /\ [][NextIndex]_vars

\* the same with two objects and one more pass
NextLong ==
    NextOver(IndexOptions, MaxPasses + 1, {<<"a">>, <<"b">>}, Meshes, {<<"_d.dds">>},
             {FALSE})

SpecLong == Init /\ [][NextLong]_vars

\* a static-object map and an entity map that share one ledger
ShareOptions == Options(EntityOptions, {"MULTI"}, {FALSE}, {TRUE}, {"OP1", "OP3"}, {0})

NextShare ==
    NextOver(ShareOptions, MaxPasses + 1, {<<"a">>, <<"b">>}, {"chair", "lamp"},
             {<<"_d.dds">>}, {FALSE})

SpecShare == Init /\ [][NextShare]_vars

\* the same with two objects and a choice of texture lists
NextTex ==
    NextOver(IndexOptions, MaxPasses, {<<"a">>, <<"b">>}, Meshes, TexLists, {FALSE})

SpecTex == Init /\ [][NextTex]_vars

\* the document files are found in any state when the first pass starts
InitLoad ==
    /\ on_disk \in [Documents -> FileStates]
    /\ disk_map = [k \in EntityOptions |-> EmptyMap]
    /\ disk_ledger = IF on_disk["ledger"] = "missing" THEN NoLedger
                     ELSE [exists |-> TRUE, assets |-> <<>>]
    /\ root = EmptyMap
    /\ asset_xml = <<>>
    /\ current_DAE = 0
    /\ opts = [entity_option |-> "OP1", multi_mode |-> "MULTI", blank |-> FALSE,
               sync_blender_deletions |-> FALSE,
               bake_multi_mat_into_single |-> "OP3", now |-> 0]
    /\ dupes = <<>>
    /\ pc = "idle"
    /\ passes = 0
    /\ pre = [map |-> disk_map, ledger |-> disk_ledger, on_disk |-> on_disk]
    /\ log = NoLog
    /\ obj_name = NoName
    /\ rig = NoRig
    /\ hpm = NoHpm

LoadOptions == Options(EntityOptions, {"MULTI"}, BOOLEAN, {TRUE}, {"OP1"}, {0})

NextLoad ==
    NextOver(LoadOptions, MaxPasses, {<<"a">>}, {"chair", "lamp"}, {<<"_d.dds">>},
             {FALSE})

SpecLoad == InitLoad /\ [][NextLoad]_vars

\* one static-object map, two objects, passes at different times
StampOptions == Options({"OP1"}, {"MULTI"}, {FALSE}, {TRUE}, {"OP1"}, {0, 1})

NextStamp ==
    NextOver(StampOptions, MaxPasses, {<<"a">>, <<"c", ".">>}, {"chair", "lamp"},
             {<<"_d.dds">>}, {FALSE})

SpecStamp == Init /\ [][NextStamp]_vars

\* ------------------------------------------------------------------------
\* The sanitisation of one object name, at export and at reconciliation
\* ------------------------------------------------------------------------
\* the scene holds an object with any raw name
InitNames ==
    /\ obj_name \in {[NoName EXCEPT !.raw = x] : x \in RawNames}
    /\ disk_map = [k \in EntityOptions |-> EmptyMap]
    /\ disk_ledger = NoLedger
    /\ root = EmptyMap
    /\ asset_xml = <<>>
    /\ current_DAE = 0
    /\ opts = [entity_option |-> "OP1", multi_mode |-> "MULTI", blank |-> FALSE,
               sync_blender_deletions |-> FALSE,
               bake_multi_mat_into_single |-> "OP3", now |-> 0]
    /\ dupes = <<>>
    /\ pc = "idle"
    /\ passes = 0
    /\ on_disk = [d \in Documents |-> IF d = "ledger" THEN "missing" ELSE "parsed"]
    /\ pre = [map |-> disk_map, ledger |-> disk_ledger, on_disk |-> on_disk]
    /\ log = NoLog
    /\ rig = NoRig
    /\ hpm = NoHpm

\* (mutant) the row stores the name of the object as it is
StoredNameRaw(raw) == raw

\* ob["hpl3export_obj_name"] = re.sub('[^0-9a-zA-Z]+', '_', ob.name), line 256:
\* the name that add_object stores in the row
StoredName(raw) == Sanitize(raw)

\* re.sub('[^0-9a-zA-Z]+', '_', obj.name), line 2042: the name that
\* sync_blender_deletions compares with the Name of a row
RecomputedName(raw) == Sanitize(raw)

StoreName ==
    /\ obj_name.step = "new"
    /\ obj_name' = [obj_name EXCEPT !.stored = StoredName(obj_name.raw),
                                    !.step = "stored"]
    /\ UNCHANGED <<disk_map, disk_ledger, root, asset_xml, current_DAE, opts, dupes,
                   pc, passes, pre, log, on_disk, rig, hpm>>

RecomputeName ==
    /\ obj_name.step = "stored"
    /\ obj_name' = [obj_name EXCEPT !.recomputed = RecomputedName(obj_name.raw),
                                    !.step = "compared"]
    /\ UNCHANGED <<disk_map, disk_ledger, root, asset_xml, current_DAE, opts, dupes,
                   pc, passes, pre, log, on_disk, rig, hpm>>

NextNames == StoreName \/ RecomputeName

SpecNames == InitNames /\ [][NextNames]_vars

\* ------------------------------------------------------------------------
\* The placement of one object, add_object lines 428-458
\* ------------------------------------------------------------------------
\* world transforms (matrix_world) as a location and a scale, in whole units
OwnTransforms ==
    {[loc |-> <<1, 2, 3>>, scale |-> <<1, 1, 1>>],
     [loc |-> <<0, 4, 0>>, scale |-> <<1, 2, 3>>]}

\* the objects that a modifier can point at; "None" is the null object
ModObjects == {"None", "arm1", "arm2"}

ModTypes == {"ARMATURE", "SUBSURF"}

\* longest modifier stack of the placed object
MaxMods == 2

Modifiers == [type : ModTypes, object : ModObjects]

ModStacks == UNION {[1..n -> Modifiers] : n \in 0..MaxMods}

\* armature.matrix_world of the two armatures of the scene
ArmatureWorld(arm) ==
    IF arm = "arm1" THEN [loc |-> <<5, 6, 7>>, scale |-> <<2, 2, 2>>]
    ELSE [loc |-> <<7, 0, 5>>, scale |-> <<3, 1, 2>>]

\* the loop of lines 431-436: the first armature modifier with an object
IsRig(mod) == mod.type = "ARMATURE" /\ mod.object # "None"

RigOf(modifiers) ==
    IF \E i \in 1..Len(modifiers) : IsRig(modifiers[i])
    THEN modifiers[CHOOSE i \in 1..Len(modifiers) :
                      /\ IsRig(modifiers[i])
                      /\ \A j \in 1..(i - 1) : ~IsRig(modifiers[j])].object
    ELSE "None"

\* (mutant) the transform of the object itself is taken in every case
WorldMatOwn(own, modifiers) == own

\* world_mat, lines 440-443
WorldMat(own, modifiers) ==
    IF RigOf(modifiers) # "None" THEN ArmatureWorld(RigOf(modifiers)) ELSE own

\* loc and scale of column_reorder @ world_mat @ local_rot_y @ y_up_mat,
\* lines 446-450: local_rot_y @ y_up_mat permutes the columns and
\* column_reorder the rows, Blender (x, y, z) becomes HPL (y, z, x)
YUp(v) == <<v[2], v[3], v[1]>>

Placement(world_mat) == [WorldPos |-> YUp(world_mat.loc), Scale |-> YUp(world_mat.scale)]

InitRig ==
    /\ rig \in [own : OwnTransforms, modifiers : ModStacks, row : {<<>>},
                step : {"new"}]
    /\ disk_map = [k \in EntityOptions |-> EmptyMap]
    /\ disk_ledger = NoLedger
    /\ root = EmptyMap
    /\ asset_xml = <<>>
    /\ current_DAE = 0
    /\ opts = [entity_option |-> "OP1", multi_mode |-> "MULTI", blank |-> FALSE,
               sync_blender_deletions |-> FALSE,
               bake_multi_mat_into_single |-> "OP3", now |-> 0]
    /\ dupes = <<>>
    /\ pc = "idle"
    /\ passes = 0
    /\ on_disk = [d \in Documents |-> IF d = "ledger" THEN "missing" ELSE "parsed"]
    /\ pre = [map |-> disk_map, ledger |-> disk_ledger, on_disk |-> on_disk]
    /\ log = NoLog
    /\ obj_name = NoName
    /\ hpm = NoHpm

\* add_object writes WorldPos and Scale of the row, lines 489-491
PlaceObject ==
    /\ rig.step = "new"
    /\ rig' = [rig EXCEPT !.row = Placement(WorldMat(rig.own, rig.modifiers)),
                          !.step = "placed"]
    /\ UNCHANGED <<disk_map, disk_ledger, root, asset_xml, current_DAE, opts, dupes,
                   pc, passes, pre, log, on_disk, obj_name, hpm>>

NextRig == PlaceObject

SpecRig == InitRig /\ [][NextRig]_vars

\* ------------------------------------------------------------------------
\* A map document with sections that the exporter did not create
\* ------------------------------------------------------------------------
ExportSectionName == "Blender@HPL3EXPORT"

\* number of add_object and sync_blender_deletions calls on the document
MaxSteps == 3

\* hand-authored sections: the first has a row with the name and the ID of
\* an exported object, the second a row "w" without a blender object
AuthoredSections ==
    {[Name |-> "Default", NumOfFiles |-> 1,
      files |-> <<[Id |-> 0, Path |-> <<"chair", ".dae">>]>>,
      objects |-> <<[Name |-> <<"a">>, ID |-> StaticObjectBaseID, CreStamp |-> 0,
                     ModStamp |-> 0, FileIndex |-> 0]>>],
     [Name |-> "Props", NumOfFiles |-> 1,
      files |-> <<[Id |-> 0, Path |-> <<"lamp", ".dae">>]>>,
      objects |-> <<[Name |-> <<"w">>, ID |-> StaticObjectBaseID + 7, CreStamp |-> 0,
                     ModStamp |-> 0, FileIndex |-> 0]>>]}

\* the export section as add_object creates it, lines 360-368
NewExportSection ==
    [Name |-> ExportSectionName, NumOfFiles |-> 0, files |-> <<>>, objects |-> <<>>]

\* the documents on which the exporter is run for the first time
AuthoredDocuments ==
    UNION {[1..n -> AuthoredSections \cup {NewExportSection}] : n \in 0..2}

\* (mutant) the first section of the document is taken
FindSectionFirst(sections) == IF sections = <<>> THEN 0 ELSE 1

\* `for child in self.root: if child.get("Name") == "Blender@HPL3EXPORT":
\* section = child`, lines 356-358 and 2028-2030: the last such section
FindSection(sections) ==
    IF \E i \in 1..Len(sections) : sections[i].Name = ExportSectionName
    THEN CHOOSE i \in 1..Len(sections) :
            /\ sections[i].Name = ExportSectionName
            /\ \A j \in (i + 1)..Len(sections) : sections[j].Name # ExportSectionName
    ELSE 0

\* the section that add_object and sync_blender_deletions work on
SectionDoc(sections) ==
    LET i == FindSection(sections)
    IN IF i = 0 THEN EmptyMap
       ELSE [hasSection |-> TRUE, NumOfFiles |-> sections[i].NumOfFiles,
             files |-> sections[i].files, objects |-> sections[i].objects]

\* the document after the section was changed in place, or appended by
\* ET.SubElement(self.root, "Section"), line 361
PutSection(sections, doc) ==
    LET i == FindSection(sections)
        section == [Name |-> ExportSectionName, NumOfFiles |-> doc.NumOfFiles,
                    files |-> doc.files, objects |-> doc.objects]
    IN IF ~doc.hasSection THEN sections
       ELSE IF i = 0 THEN Append(sections, section)
       ELSE [sections EXCEPT ![i] = section]

InitHpm ==
    /\ hpm \in {[NoHpm EXCEPT !.sections = d, !.authored = d] : d \in AuthoredDocuments}
    /\ disk_map = [k \in EntityOptions |-> EmptyMap]
    /\ disk_ledger = NoLedger
    /\ root = EmptyMap
    /\ asset_xml = <<>>
    /\ current_DAE = 0
    /\ opts = [entity_option |-> "OP1", multi_mode |-> "MULTI", blank |-> FALSE,
               sync_blender_deletions |-> FALSE,
               bake_multi_mat_into_single |-> "OP3", now |-> 0]
    /\ dupes = <<>>
    /\ pc = "idle"
    /\ passes = 0
    /\ on_disk = [d \in Documents |-> IF d = "ledger" THEN "missing" ELSE "parsed"]
    /\ pre = [map |-> disk_map, ledger |-> disk_ledger, on_disk |-> on_disk]
    /\ log = NoLog
    /\ obj_name = NoName
    /\ rig = NoRig

\* get_asset_xml_entry and add_object for one object, lines 278 and 291-292
HpmAddObject(names, meshes) ==
    /\ hpm.steps < MaxSteps
    /\ \E name \in names, mesh \in meshes :
         LET e == get_asset_xml_entry(hpm.assets, mesh)
             r == add_object(SectionDoc(hpm.sections), e.asset_xml, e.current_DAE,
                             "MULTI", FALSE, Sanitize(name), mesh, 0)
         IN hpm' = [hpm EXCEPT !.sections = PutSection(hpm.sections, r.root),
                               !.assets = r.asset_xml,
                               !.steps = @ + 1]
    /\ UNCHANGED <<disk_map, disk_ledger, root, asset_xml, current_DAE, opts, dupes,
                   pc, passes, pre, log, on_disk, obj_name, rig>>

\* sync_blender_deletions on the document, line 298
HpmSync(names) ==
    /\ hpm.steps < MaxSteps
    /\ \E live \in SUBSET {Sanitize(n) : n \in names} :
         LET res == sync_blender_deletions(SectionDoc(hpm.sections), hpm.assets, live,
                                           FALSE, {})
             doc == [hasSection |-> TRUE, NumOfFiles |-> res.NumOfFiles,
                     files |-> res.files, objects |-> res.objects]
         IN hpm' = IF res.status \in {"crash", "empty"}
                   THEN [hpm EXCEPT !.steps = @ + 1]
                   ELSE [hpm EXCEPT !.sections = PutSection(hpm.sections, doc),
                                    !.assets = res.assets,
                                    !.orphans = @ \cup res.orphans,
                                    !.steps = @ + 1]
    /\ UNCHANGED <<disk_map, disk_ledger, root, asset_xml, current_DAE, opts, dupes,
                   pc, passes, pre, log, on_disk, obj_name, rig>>

NextHpm ==
    \/ HpmAddObject({<<"a">>, <<"b">>}, {"chair", "lamp"})
    \/ HpmSync({<<"a">>, <<"b">>})

SpecHpm == InitHpm /\ [][NextHpm]_vars

TypeOK == pc \in {"idle", "export", "bake", "textures", "sync", "write_map", "write_ledger"}

\* ------------------------------------------------------------------------
\* Properties of the file index
\* ------------------------------------------------------------------------
FileIds(doc) == {doc.files[i].Id : i \in 1..Len(doc.files)}
FilePaths(doc) == {doc.files[i].Path : i \in 1..Len(doc.files)}

DenseIndex(doc) ==
    /\ FileIds(doc) = 0..(Len(doc.files) - 1)
    /\ Cardinality(FilePaths(doc)) = Len(doc.files)

\* C1: in every state reached by exports and reconciliations from an empty
\* export section, the Ids of the File entries are exactly 0..n-1 and no two
\* File entries carry the same Path, in memory and on disk
C1_DenseIds ==
    /\ DenseIndex(root)
    /\ \A k \in EntityOptions : DenseIndex(disk_map[k])

\* a committed reconciliation removed a File entry below a remaining one
C1_Witness ==
    /\ pc = "idle"
    /\ log.outcome = "committed"
    /\ \E c \in log.sync.compacted :
         \E i \in 1..Len(log.sync_root.files) :
            /\ log.sync_root.files[i].Path = c[2]
            /\ i < Len(log.sync_root.files)
    /\ Len(disk_map["OP1"].files) >= 1

\* the path of the File entry with the given Id, <<>> when there is none
PathOfId(files, id) ==
    IF \E i \in 1..Len(files) : files[i].Id = id
    THEN (CHOOSE f \in SeqToSet(files) : f.Id = id).Path
    ELSE <<>>

\* C2: a reconciliation that removes File entries renumbers the remaining
\* entries and the rows together: every remaining entry moves down by the
\* number of removed entries below it, and every row with a live object
\* references the File entry with the same Path before and after the pass
C2_RenumberKeepsPaths ==
    log.sync.status \in {"return0", "return1"} =>
        LET before == log.sync_root
            after == log.sync
            gone == {f \in SeqToSet(before.files) : f.Path \notin
                        {after.files[i].Path : i \in 1..Len(after.files)}}
        IN /\ \A i \in 1..Len(after.files) :
                \E f \in SeqToSet(before.files) :
                    /\ f.Path = after.files[i].Path
                    /\ after.files[i].Id = f.Id - Cardinality({g \in gone : g.Id < f.Id})
           /\ \A i \in 1..Len(before.objects) :
                (/\ before.objects[i].Name \in log.live
                 /\ PathOfId(before.files, before.objects[i].FileIndex) # <<>>)
                => \E j \in 1..Len(after.objects) :
                      /\ after.objects[j].Name = before.objects[i].Name
                      /\ PathOfId(after.files, after.objects[j].FileIndex)
                            = PathOfId(before.files, before.objects[i].FileIndex)

\* a reconciliation removed a File entry and a surviving row was renumbered
C2_Witness ==
    /\ log.sync.status \in {"return0", "return1"}
    /\ log.sync.compacted # {}
    /\ \E i \in 1..Len(log.sync_root.objects) : \E j \in 1..Len(log.sync.objects) :
         /\ log.sync_root.objects[i].Name \in log.live
         /\ log.sync.objects[j].Name = log.sync_root.objects[i].Name
         /\ log.sync.objects[j].FileIndex < log.sync_root.objects[i].FileIndex

\* ------------------------------------------------------------------------
\* Properties of the use counts
\* ------------------------------------------------------------------------
Max0(n) == IF n < 0 THEN 0 ELSE n

HasAsset(assets, path) == \E i \in 1..Len(assets) : assets[i].DAEpath = path

AssetOf(assets, path) == assets[CHOOSE i \in 1..Len(assets) : assets[i].DAEpath = path]

\* the use count that the ledger holds for a path, 0 without an entry
UsesOf(assets, path) ==
    IF HasAsset(assets, path) THEN AssetOf(assets, path).Uses ELSE 0

HasFile(doc, path) == \E i \in 1..Len(doc.files) : doc.files[i].Path = path

\* the positions of the rows of a document whose FileIndex resolves to a
\* File entry of the geometry dae_path
RowsOf(doc, dae_path) ==
    {j \in 1..Len(doc.objects) :
        \E i \in 1..Len(doc.files) :
            /\ doc.files[i].Id = doc.objects[j].FileIndex
            /\ EntToDae(doc.files[i].Path) = dae_path}

FilesOfAsset(a) == SeqToSet(a.DDSpath) \cup {a.DAEpath, DaeToMsh(a.DAEpath)}

SyncDone == log.sync.status \in {"return0", "return1"}

\* C4 as stated: an orphan whose File entry is shared with a row of a live
\* object loses its row, while the File entry, the files and the ledger entry
\* stay and the use count is not below the number of surviving references
C4_SharedOrphan ==
    (pc = "idle" /\ log.outcome = "committed" /\ SyncDone) =>
        \A i \in 1..Len(log.sync_root.objects) :
            LET before == log.sync_root
                orphan == before.objects[i]
                path == PathOfId(before.files, orphan.FileIndex)
                shared == \E j \in 1..Len(before.objects) :
                             /\ before.objects[j].Name \in log.live
                             /\ before.objects[j].FileIndex = orphan.FileIndex
            IN (orphan.Name \notin log.live /\ path # <<>> /\ shared) =>
                 /\ \A j \in 1..Len(root.objects) : root.objects[j].Name # orphan.Name
                 /\ HasFile(root, path)
                 /\ HasAsset(log.sync_assets, EntToDae(path)) =>
                       /\ HasAsset(asset_xml, EntToDae(path))
                       /\ FilesOfAsset(AssetOf(log.sync_assets, EntToDae(path)))
                             \cap log.sync.submitted = {}
                       /\ UsesOf(asset_xml, EntToDae(path))
                             >= Cardinality(RowsOf(root, EntToDae(path)))

C6_BakeFailureWritesNothing ==
    log.bake_failed =>
        /\ disk_map = pre.map
        /\ disk_ledger = pre.ledger
        /\ pc = "idle"

\* the bake failed after add_object had changed the map and the ledger in
\* memory
C6_Witness ==
    /\ log.bake_failed
    /\ ~opts.blank
    /\ root # pre.map[opts.entity_option]
    /\ asset_xml # pre.ledger.assets
    /\ Len(dupes) = 2

\* C7 as stated: a pass that ends has written the map document and the
\* ledger document both or neither
C7_BothOrNeither ==
    (pc = "idle" /\ passes > 0 /\ ~opts.blank) =>
        (log.written_map <=> log.written_ledger)

\* C8 as stated: a purged geometry of which a file could not be deleted
\* keeps its ledger entry, with the undeleted files, in the committed ledger
C8_EntryKeptOnFailure ==
    (pc = "idle" /\ log.outcome = "committed" /\ SyncDone) =>
        \A p \in log.sync.purged :
            LET asset == AssetOf(log.sync_assets, p)
                undeleted == FilesOfAsset(asset) \cap log.sync.leftover
            IN undeleted # {} =>
                 /\ HasAsset(disk_ledger.assets, p)
                 /\ undeleted \subseteq FilesOfAsset(AssetOf(disk_ledger.assets, p))

\* C9 as stated: in every committed map no orphan found by the pass keeps
\* its row after its File entry was compacted away, and no orphan lost its
\* row while its unshared File entry is still there
C9_RowsAndIndexTogether ==
    (pc = "idle" /\ log.outcome = "committed" /\ SyncDone) =>
        LET doc == disk_map[opts.entity_option]
        IN /\ \A c \in log.sync.compacted :
                \A j \in 1..Len(doc.objects) : doc.objects[j].Name # c[1]
           /\ \A i \in 1..Len(log.sync_root.objects) :
                LET row == log.sync_root.objects[i]
                    path == PathOfId(log.sync_root.files, row.FileIndex)
                IN (/\ row.Name \in log.sync.orphans
                    /\ path # <<>>
                    /\ \A j \in 1..Len(doc.objects) : doc.objects[j].Name # row.Name
                    /\ RowsOf(doc, EntToDae(path)) = {})
                   => ~HasFile(doc, path)

\* ------------------------------------------------------------------------
\* Properties of the texture lists
\* ------------------------------------------------------------------------
\* C10 as stated: after delete_unused_textures, the texture list of the
\* ledger entry of every exported geometry is its new texture set plus
\* exactly the formerly listed textures, absent from the new set, whose
\* deletion failed
C10_TextureListKept ==
    log.tex_ran =>
        \A i \in 1..Len(log.tex_keys) :
            LET mesh == log.tex_keys[i]
                path == DaePath(mesh)
                fresh == {<<mesh, log.tex_new[mesh][k]>> :
                             k \in 1..Len(log.tex_new[mesh])}
                before == AssetOf(log.tex_assets, path)
                old == IF before.hasDDS THEN SeqToSet(before.DDSpath) ELSE {}
                after == AssetOf(log.tex_after, path)
            IN /\ after.hasDDS
               /\ SeqToSet(after.DDSpath)
                     = fresh \cup ((old \ fresh) \cap log.tex_failing)

\* ------------------------------------------------------------------------
\* Properties of the errors of a pass
\* ------------------------------------------------------------------------
\* C12 as stated: no pass in which the image converter or the saving of a
\* baked image failed writes the map document or the ledger document
C12_ConversionFailureAborts ==
    log.convert_failed =>
        /\ ~log.written_map
        /\ ~log.written_ledger
        /\ disk_map = pre.map
        /\ disk_ledger = pre.ledger

\* the map file of the pass was missing, or was readable, when the pass began
MapWasMissing == ~opts.blank /\ pre.on_disk[opts.entity_option] = "missing"

MapWasMalformed == ~opts.blank /\ pre.on_disk[opts.entity_option] = "malformed"

MapWasReadable == opts.blank \/ pre.on_disk[opts.entity_option] = "parsed"

C14_MalformedIsFatal ==
    (passes > 0 /\ (MapWasMalformed \/ pre.on_disk["ledger"] = "malformed")) =>
        /\ log.outcome # "committed"
        /\ ~log.written_map
        /\ ~log.written_ledger
        /\ on_disk = pre.on_disk

\* a removal failed while delete_unused_textures replaced a texture list
TextureDeletionFailed ==
    /\ log.tex_ran
    /\ \E i \in 1..Len(log.tex_keys) :
         LET e == MatchingEntry(log.tex_assets, DaePath(log.tex_keys[i]))
         IN /\ e # 0
            /\ SeqToSet(log.tex_assets[e].DDSpath) \cap log.tex_failing # {}

\* C15: a file whose deletion fails during reconciliation or during the
\* replacement of a texture list does not end the pass: the pass goes on to
\* the commit, sync_blender_deletions returning 1 leads straight to it, and
\* unless a write itself raises the pass ends committed with both documents
\* written
C15_DeletionFailureNonFatal ==
    (log.sync.leftover # {} \/ TextureDeletionFailed) =>
        /\ log.outcome \in {"running", "committed", "crashed"}
        /\ log.sync.status = "return1" => pc \in {"write_map", "write_ledger", "idle"}
        /\ pc = "idle" =>
              /\ log.outcome \in {"committed", "crashed"}
              /\ log.outcome = "committed" => (log.written_map /\ log.written_ledger)

\* a pass in which a texture and a file of a purged geometry could not be
\* deleted has written both documents
C15_Witness ==
    /\ log.sync.leftover # {}
    /\ TextureDeletionFailed
    /\ pc = "idle"
    /\ log.outcome = "committed"
    /\ log.written_map
    /\ log.written_ledger

\* ------------------------------------------------------------------------
\* Properties of add_object
\* ------------------------------------------------------------------------
\* the Id of the File entry of a path
PathIdOf(files, path) ==
    files[CHOOSE i \in 1..Len(files) : files[i].Path = path].Id

\* the largest Id of a non-empty file index
MaxId(files) ==
    CHOOSE m \in {files[i].Id : i \in 1..Len(files)} :
        \A i \in 1..Len(files) : files[i].Id <= m

\* the row of an object name in a document
RowNamed(doc, name) ==
    doc.objects[CHOOSE j \in 1..Len(doc.objects) : doc.objects[j].Name = name]

\* what add_object makes of the current documents for one object
Exported(name, mesh) ==
    LET e == get_asset_xml_entry(asset_xml, mesh)
    IN add_object(root, e.asset_xml, e.current_DAE, opts.multi_mode, is_ent,
                  Sanitize(name), mesh, opts.now)

\* C16: add_object on a path that is in the file index inserts nothing,
\* leaves NumOfFiles as it is and gives the row the Id of the existing File
\* entry; on a path that is not in the index it appends exactly one File entry
\* with Id max(ids) + 1, or 0 for an empty index, adds 1 to NumOfFiles and
\* gives the row that Id
C16_ResolveFileIndex ==
    (pc = "export" /\ ~opts.blank) =>
        \A name \in ObjNames, mesh \in Meshes :
            LET r == Exported(name, mesh).root
                path == IndexPath(mesh, is_ent)
                row == RowNamed(r, Sanitize(name))
                id == IF root.files = <<>> THEN 0 ELSE MaxId(root.files) + 1
            IN IF HasFile(root, path)
               THEN /\ r.files = root.files
                    /\ r.NumOfFiles = root.NumOfFiles
                    /\ row.FileIndex = PathIdOf(root.files, path)
               ELSE /\ r.files = Append(root.files, [Id |-> id, Path |-> path])
                    /\ r.NumOfFiles = root.NumOfFiles + 1
                    /\ row.FileIndex = id

\* in one pass the first object was resolved to an existing File entry and
\* the second one got a new File entry behind it
C16_Witness ==
    /\ pc = "export"
    /\ Len(dupes) = 2
    /\ HasFile(pre.map[opts.entity_option], IndexPath(dupes[1][2], is_ent))
    /\ ~HasFile(pre.map[opts.entity_option], IndexPath(dupes[2][2], is_ent))
    /\ Len(root.files) >= 2
    /\ root.files[Len(root.files)] =
          [Id |-> Len(root.files) - 1, Path |-> IndexPath(dupes[2][2], is_ent)]
    /\ RowNamed(root, Sanitize(dupes[2][1])).FileIndex = Len(root.files) - 1

UniqueNames(doc) ==
    \A i, j \in 1..Len(doc.objects) :
        doc.objects[i].Name = doc.objects[j].Name => i = j

\* C17: add_object for a name that has a row changes that row in place: the
\* number of rows, the other rows, and the ID and CreStamp of the row stay,
\* ModStamp and FileIndex are overwritten; a name without a row gets one new
\* row at the end; so no document ever holds two rows with the same Name
C17_UpsertInPlace ==
    /\ UniqueNames(root)
    /\ \A k \in EntityOptions : UniqueNames(disk_map[k])
    /\ (pc = "export" /\ ~opts.blank) =>
          \A name \in ObjNames, mesh \in Meshes :
              LET r == Exported(name, mesh).root
                  listed == \E j \in 1..Len(root.objects) :
                               root.objects[j].Name = Sanitize(name)
                  index == PathIdOf(r.files, IndexPath(mesh, is_ent))
              IN IF listed
                 THEN /\ Len(r.objects) = Len(root.objects)
                      /\ \A j \in 1..Len(root.objects) :
                            IF root.objects[j].Name = Sanitize(name)
                            THEN r.objects[j] =
                                    [Name |-> Sanitize(name), ID |-> root.objects[j].ID,
                                     CreStamp |-> root.objects[j].CreStamp,
                                     ModStamp |-> opts.now, FileIndex |-> index]
                            ELSE r.objects[j] = root.objects[j]
                 ELSE /\ Len(r.objects) = Len(root.objects) + 1
                      /\ SubSeq(r.objects, 1, Len(root.objects)) = root.objects
                      /\ r.objects[Len(r.objects)].Name = Sanitize(name)

\* an object exported in an earlier pass was exported again later with
\* another mesh: same ID and CreStamp, new ModStamp and FileIndex
C17_Witness ==
    /\ pc = "export"
    /\ dupes # <<>>
    /\ LET before == pre.map[opts.entity_option]
           name == Sanitize(dupes[Len(dupes)][1])
       IN /\ \E j \in 1..Len(before.objects) : before.objects[j].Name = name
          /\ Len(root.objects) = Len(before.objects)
          /\ Len(root.objects) = 2
          /\ RowNamed(root, name).ID = RowNamed(before, name).ID
          /\ RowNamed(root, name).CreStamp = 0
          /\ RowNamed(root, name).ModStamp = 1
          /\ RowNamed(root, name).FileIndex # RowNamed(before, name).FileIndex

\* ------------------------------------------------------------------------
\* Properties of the reconciliation
\* ------------------------------------------------------------------------
\* C18 as stated: the rows that a committed reconciliation removed are
\* exactly the rows whose Name is the sanitised name of no object of the
\* scene
C18_ExactlyOrphansRemoved ==
    (pc = "idle" /\ log.outcome = "committed" /\ SyncDone) =>
        \A i \in 1..Len(log.sync_root.objects) :
            LET name == log.sync_root.objects[i].Name
                kept == \E j \in 1..Len(disk_map[opts.entity_option].objects) :
                           disk_map[opts.entity_option].objects[j].Name = name
            IN kept <=> name \in log.live

\* C19: the sanitisation is idempotent, sanitize(sanitize(x)) = sanitize(x)
\* for every name x, and the name recomputed by the reconciliation equals the
\* name stored at export for the same object
C19_SanitizeIdempotent ==
    obj_name.step # "new" =>
        /\ Sanitize(obj_name.stored) = obj_name.stored
        /\ Sanitize(Sanitize(obj_name.raw)) = Sanitize(obj_name.raw)
        /\ obj_name.step = "compared" => obj_name.recomputed = obj_name.stored

\* a name with a run of two characters outside [0-9a-zA-Z], one of them an
\* underscore, was stored and recomputed
C19_Witness ==
    /\ obj_name.step = "compared"
    /\ Len(obj_name.raw) = 3
    /\ obj_name.raw[2] = "."
    /\ obj_name.raw[3] = "_"
    /\ obj_name.stored = <<obj_name.raw[1], "_">>
    /\ obj_name.raw[1] \in Alnum

\* the pass runs the reconciliation: line 297, inside the MULTI branch
OptedIn ==
    opts.sync_blender_deletions /\ ~opts.blank /\ opts.multi_mode = "MULTI"

\* C20: in a pass without opt-in (sync_blender_deletions not set, or a blank
\* map path, or single export mode) the reconciliation does not run: no File
\* entry and no row is removed or renumbered, NumOfFiles does not go down, and
\* no ledger entry is removed or has its use count decremented
C20_NoOptInNoRemoval ==
    (passes > 0 /\ ~OptedIn /\ log.outcome # "refused") =>
        /\ log.sync.status = "notrun"
        /\ IF opts.blank THEN disk_map = pre.map
           ELSE LET before == pre.map[opts.entity_option]
                    exported == {Sanitize(dupes[d][1]) : d \in 1..Len(dupes)}
                IN /\ Len(root.files) >= Len(before.files)
                   /\ SubSeq(root.files, 1, Len(before.files)) = before.files
                   /\ root.NumOfFiles >= before.NumOfFiles
                   /\ Len(root.objects) >= Len(before.objects)
                   /\ \A j \in 1..Len(before.objects) :
                         /\ root.objects[j].Name = before.objects[j].Name
                         /\ root.objects[j].ID = before.objects[j].ID
                         /\ before.objects[j].Name \notin exported =>
                               root.objects[j] = before.objects[j]
        /\ LET loaded == LoadLedger(pre.on_disk["ledger"], pre.ledger)
           IN /\ Len(asset_xml) >= Len(loaded)
              /\ \A i \in 1..Len(loaded) :
                    /\ asset_xml[i].DAEpath = loaded[i].DAEpath
                    /\ asset_xml[i].Uses >= loaded[i].Uses

\* a pass in single export mode with sync_blender_deletions set committed a
\* map that keeps the row of an object that the pass did not export
C20_Witness ==
    /\ pc = "idle"
    /\ log.outcome = "committed"
    /\ opts.sync_blender_deletions
    /\ ~opts.blank
    /\ opts.multi_mode = "SINGLE"
    /\ Len(dupes) = 1
    /\ Len(disk_map[opts.entity_option].objects) = 2
    /\ Len(disk_ledger.assets) >= 1

\* ------------------------------------------------------------------------
\* A whole pass as a function of the documents and of the scene
\* ------------------------------------------------------------------------
\* the loop over the duplicates, lines 271-292, or the one export of lines
\* 321-323
RECURSIVE ExportAll(_, _, _, _)
ExportAll(st, o, d, i) ==
    IF i > Len(d) THEN st
    ELSE LET e == get_asset_xml_entry(st.asset_xml, d[i][2])
             r == add_object(st.root, e.asset_xml, e.current_DAE, o.multi_mode,
                             o.entity_option = "OP2", Sanitize(d[i][1]), d[i][2], o.now)
         IN ExportAll(IF MapExported(o) THEN r
                      ELSE [root |-> st.root, asset_xml |-> e.asset_xml], o, d, i + 1)

\* export_objects on the documents doc and assets: the exports of d, the new
\* texture lists, the reconciliation against the names live
ExportPass(doc, assets, o, d, newtex, tex_failing, live, sync_failing) ==
    LET added == ExportAll([root |-> doc, asset_xml |-> assets], o, d, 1)
        listed == IF o.bake_multi_mat_into_single # "OP3"
                  THEN delete_unused_textures(added.asset_xml, MeshKeys(d, 1), 1,
                                              newtex, tex_failing)
                  ELSE added.asset_xml
        res == sync_blender_deletions(added.root, listed, live,
                                      o.entity_option = "OP2", sync_failing)
    IN IF o.multi_mode = "MULTI" /\ SyncOptedIn(o) /\ res.status # "empty"
       THEN [root |-> [hasSection |-> TRUE, NumOfFiles |-> res.NumOfFiles,
                       files |-> res.files, objects |-> res.objects],
             asset_xml |-> res.assets, raised |-> res.status = "crash"]
       ELSE [root |-> added.root, asset_xml |-> listed, raised |-> FALSE]

\* the committed pass, run once more on the documents that it wrote, with
\* the same settings, objects, textures, scene and undeletable files
SecondPass ==
    ExportPass(IF opts.blank THEN EmptyMap ELSE disk_map[opts.entity_option],
               disk_ledger.assets, opts, dupes, log.tex_new, log.tex_failing,
               log.live, log.sync.leftover)

\* the rows of a document without their ModStamp
WithoutModStamp(doc) ==
    [doc EXCEPT !.objects = [j \in 1..Len(doc.objects) |->
                                [doc.objects[j] EXCEPT !.ModStamp = 0]]]

\* C11 as stated: a committed pass that is run a second time on the same
\* scene, selection and options leaves a map document and a ledger document
\* identical to those of the first run, except for ModStamp
C11_SecondPassIdentical ==
    (pc = "idle" /\ log.outcome = "committed") =>
        \/ SecondPass.raised
        \/ /\ SecondPass.asset_xml = disk_ledger.assets
           /\ ~opts.blank =>
                 WithoutModStamp(SecondPass.root)
                    = WithoutModStamp(disk_map[opts.entity_option])

\* ------------------------------------------------------------------------
\* A pass without a map path
\* ------------------------------------------------------------------------
\* the ledger as the pass loaded it
LoadedLedger == LoadLedger(pre.on_disk["ledger"], pre.ledger)

\* C21: in a pass with a blank map path no map document is parsed or
\* written, no File entry, row or use count changes and no reconciliation
\* runs, while the ledger is loaded, receives an entry for every exported
\* geometry and is what the commit writes
C21_BlankSkipsMap ==
    (opts.blank /\ passes > 0) =>
        /\ root = EmptyMap
        /\ disk_map = pre.map
        /\ \A k \in EntityOptions : on_disk[k] = pre.on_disk[k]
        /\ ~log.written_map
        /\ pc \notin {"write_map", "sync"}
        /\ log.sync.status = "notrun"
        /\ Len(asset_xml) >= Len(LoadedLedger)
        /\ \A i \in 1..Len(asset_xml) :
              IF i <= Len(LoadedLedger)
              THEN /\ asset_xml[i].DAEpath = LoadedLedger[i].DAEpath
                   /\ asset_xml[i].Uses = LoadedLedger[i].Uses
              ELSE asset_xml[i].Uses = 0
        /\ \A i \in 1..Len(dupes) : HasAsset(asset_xml, DaePath(dupes[i][2]))
        /\ (pc = "idle" /\ log.outcome = "committed") =>
              /\ log.written_ledger
              /\ disk_ledger = [exists |-> TRUE, assets |-> asset_xml]

\* a pass without a map path exported a new geometry and committed, while a
\* map with rows from an earlier pass lies on disk
C21_Witness ==
    /\ opts.blank
    /\ pc = "idle"
    /\ log.outcome = "committed"
    /\ dupes # <<>>
    /\ Len(disk_ledger.assets) > Len(pre.ledger.assets)
    /\ \E k \in EntityOptions : pre.map[k].objects # <<>>

\* ------------------------------------------------------------------------
\* The IDs of the rows
\* ------------------------------------------------------------------------
RowIDs(doc) == {doc.objects[i].ID : i \in 1..Len(doc.objects)}

RowNames(doc) == {doc.objects[i].Name : i \in 1..Len(doc.objects)}

MaxRowID(doc) == CHOOSE m \in RowIDs(doc) : \A n \in RowIDs(doc) : n <= m

DistinctIDs(doc) == Cardinality(RowIDs(doc)) = Len(doc.objects)

\* the ID that a row created in a document must receive
FreshID(doc, ent) ==
    IF doc.objects = <<>>
    THEN (IF ent THEN EntityBaseID ELSE StaticObjectBaseID)
    ELSE MaxRowID(doc) + 1

\* C23: a row that an export creates receives the largest ID of its
\* registry plus 1, or the base constant of its type when the registry has
\* no row; the IDs of the rows of a registry are pairwise distinct, in
\* memory and on disk
C23_FreshRowID ==
    [][/\ pc = "export" =>
              \A j \in 1..Len(root'.objects) :
                  root'.objects[j].Name \notin RowNames(root) =>
                      root'.objects[j].ID = FreshID(root, is_ent)
       /\ DistinctIDs(root')
       /\ \A k \in EntityOptions : DistinctIDs(disk_map'[k])]_vars

\* a row was created in a registry whose first rows had been erased by the
\* reconciliation of an earlier pass, and the pass committed
C23_Witness ==
    /\ pc = "idle"
    /\ log.outcome = "committed"
    /\ ~opts.blank
    /\ pre.map[opts.entity_option].objects # <<>>
    /\ pre.map[opts.entity_option].objects[1].ID > StaticObjectBaseID
    /\ \E j \in 1..Len(root.objects) :
          /\ root.objects[j].Name \notin RowNames(pre.map[opts.entity_option])
          /\ root.objects[j].ID = MaxRowID(pre.map[opts.entity_option]) + 1

\* ------------------------------------------------------------------------
\* Rows whose FileIndex is not in the file index
\* ------------------------------------------------------------------------
\* the rows of a document whose FileIndex is the Id of no File entry
StaleRows(doc) ==
    {i \in 1..Len(doc.objects) : doc.objects[i].FileIndex \notin FileIds(doc)}

\* C22 as stated: when a reconciliation meets a row whose FileIndex is the
\* Id of no File entry, the pass is not aborted by it, and the map that the
\* pass commits has no such row
C22_StaleRowRepaired ==
    (log.sync.status # "notrun" /\ StaleRows(log.sync_root) # {}) =>
        /\ log.sync.status # "crash"
        /\ (pc = "idle" /\ log.outcome = "committed") =>
              StaleRows(disk_map[opts.entity_option]) = {}

\* ------------------------------------------------------------------------
\* The files that a purge submits for deletion
\* ------------------------------------------------------------------------
\* the files of the ledger entries that the reconciliation purged, as the
\* ledger listed them when the reconciliation started
OwnFilesOfPurged ==
    UNION {FilesOfAsset(AssetOf(log.sync_assets, p)) : p \in log.sync.purged}

\* C24 as stated: the files that a reconciliation submits for deletion are
\* exactly the recorded textures, the .dae and the .msh of the geometries
\* that it purges, never an .ent file; and the purge of an entry without a
\* recorded texture list completes
C24_PurgeSubmitsOwnFiles ==
    log.sync.status # "notrun" =>
        /\ log.sync.submitted = OwnFilesOfPurged
        /\ \A f \in log.sync.submitted : f[2] # ".ent"
        /\ log.sync.status = "crash" => StaleRows(log.sync_root) # {}

\* ------------------------------------------------------------------------
\* The transform behind the placement of a row
\* ------------------------------------------------------------------------
\* the armature modifiers of the placed object that point at an object
Rigs == {i \in 1..Len(rig.modifiers) :
            rig.modifiers[i].type = "ARMATURE" /\ rig.modifiers[i].object # "None"}

\* C25: the placement of the row of an object with an armature modifier
\* whose object is not null is computed from the world transform of that
\* armature; the placement of the row of any other object is computed from
\* the world transform of the object itself
C25_RigPlacement ==
    rig.step = "placed" =>
        IF Rigs # {}
        THEN \E i \in Rigs :
                rig.row = Placement(ArmatureWorld(rig.modifiers[i].object))
        ELSE rig.row = Placement(rig.own)

\* the row of an object was placed whose stack holds an armature modifier
\* without object before one with an object
C25_Witness ==
    /\ rig.step = "placed"
    /\ Len(rig.modifiers) = 2
    /\ rig.modifiers[1] = [type |-> "ARMATURE", object |-> "None"]
    /\ rig.modifiers[2] = [type |-> "ARMATURE", object |-> "arm2"]
    /\ rig.row = [WorldPos |-> <<0, 5, 7>>, Scale |-> <<1, 2, 3>>]

\* ------------------------------------------------------------------------
\* The use count during the export of one object
\* ------------------------------------------------------------------------
\* C26 as stated: the export of an object adds exactly 1 to the use count of
\* its geometry when, and only when, the path of the geometry is newly
\* inserted into the file index, in every export mode; every other use
\* count, and every use count when the path was indexed already, stays
C26_UsesOnInsert ==
    [][(pc = "export" /\ Len(dupes') > Len(dupes)) =>
          LET mesh == dupes'[Len(dupes')][2]
              inserted == /\ ~HasFile(root, IndexPath(mesh, is_ent))
                          /\ HasFile(root', IndexPath(mesh, is_ent))
          IN /\ UsesOf(asset_xml', DaePath(mesh))
                  = UsesOf(asset_xml, DaePath(mesh)) + (IF inserted THEN 1 ELSE 0)
             /\ \A i \in 1..Len(asset_xml) :
                   asset_xml[i].DAEpath # DaePath(mesh) =>
                       asset_xml'[i] = asset_xml[i]]_vars

\* ------------------------------------------------------------------------
\* The NumOfFiles attribute
\* ------------------------------------------------------------------------
CountsFiles(doc) == doc.NumOfFiles = Len(doc.files)

\* C27: in every map document reached by exports and reconciliations from
\* an empty export section, on disk and in memory while no exception has
\* ended the pass, NumOfFiles equals the number of File entries of the file
\* index
C27_NumOfFilesCounts ==
    /\ log.outcome # "crashed" => CountsFiles(root)
    /\ \A k \in EntityOptions : CountsFiles(disk_map[k])

\* a committed pass appended a File entry and its reconciliation removed
\* another one, and File entries are left
C27_Witness ==
    /\ pc = "idle"
    /\ log.outcome = "committed"
    /\ log.sync.compacted # {}
    /\ \E f \in FilePaths(disk_map[opts.entity_option]) :
          f \notin FilePaths(pre.map[opts.entity_option])
    /\ disk_map[opts.entity_option].NumOfFiles >= 1

\* ------------------------------------------------------------------------
\* The sections that the exporter did not create
\* ------------------------------------------------------------------------
IsForeign(section) == section.Name # ExportSectionName

\* the positions of the sections of a document that the exporter works on
Worked(sections) ==
    {i \in 1..Len(sections) :
        /\ sections[i].Name = ExportSectionName
        /\ \A j \in (i + 1)..Len(sections) : sections[j].Name # ExportSectionName}

\* C28: exports and reconciliations change only the section named
\* Blender@HPL3EXPORT: every other section of the map document keeps its
\* place, its File entries and its rows, and no row of another section is
\* taken for an orphan
C28_ForeignSectionsKept ==
    /\ Len(hpm.sections) >= Len(hpm.authored)
    /\ \A i \in 1..Len(hpm.authored) :
          i \notin Worked(hpm.sections) => hpm.sections[i] = hpm.authored[i]
    /\ \A i \in (Len(hpm.authored) + 1)..Len(hpm.sections) :
          hpm.sections[i].Name = ExportSectionName
    /\ <<"w">> \notin hpm.orphans

\* a document with two hand-authored sections received the export section,
\* rows were exported and a row of the export section was removed as an
\* orphan, while a hand-authored row has the name of the orphan
C28_Witness ==
    /\ Len(hpm.authored) = 2
    /\ \A i \in 1..2 : IsForeign(hpm.authored[i])
    /\ Len(hpm.sections) = 3
    /\ hpm.sections[3].objects # <<>>
    /\ <<"a">> \in hpm.orphans
    /\ \E i \in 1..2 : hpm.sections[i].objects[1].Name = <<"a">>

\* ------------------------------------------------------------------------
\* Several orphans on one File entry
\* ------------------------------------------------------------------------
\* the rows of the document before the reconciliation that reference the
\* File entry with the given Id
RowsOnFile(id) ==
    {i \in 1..Len(log.sync_root.objects) : log.sync_root.objects[i].FileIndex = id}

\* the File entries before the reconciliation that two or more rows
\* reference, all of them rows without a blender object
OrphanedTogether ==
    {f \in SeqToSet(log.sync_root.files) :
        /\ Cardinality(RowsOnFile(f.Id)) >= 2
        /\ \A i \in RowsOnFile(f.Id) : log.sync_root.objects[i].Name \notin log.live}

\* C29 as stated: a File entry that only orphans reference, and more than
\* one of them, is removed exactly once by the reconciliation, with one
\* decrement of NumOfFiles and one purge of its files, and all of those
\* orphan rows are removed
C29_SharedByOrphansRemovedOnce ==
    log.sync.status # "notrun" =>
        /\ \A f \in OrphanedTogether :
              /\ f.Path \notin {log.sync.files[i].Path : i \in 1..Len(log.sync.files)}
              /\ Cardinality({c \in log.sync.compacted : c[2] = f.Path}) = 1
              /\ \A i \in RowsOnFile(f.Id) :
                    log.sync_root.objects[i].Name \notin
                       {log.sync.objects[j].Name : j \in 1..Len(log.sync.objects)}
        /\ OrphanedTogether # {} =>
              /\ log.sync.NumOfFiles
                    = log.sync_root.NumOfFiles - Cardinality(log.sync.compacted)
              /\ Cardinality({c[2] : c \in log.sync.compacted})
                    = Cardinality(log.sync.compacted)

\* ------------------------------------------------------------------------
\* File entries without a row
\* ------------------------------------------------------------------------
\* the File entries of a document that no row references
Unreferenced(doc) ==
    {f \in SeqToSet(doc.files) :
        \A j \in 1..Len(doc.objects) : doc.objects[j].FileIndex # f.Id}

\* C30 as stated: after a pass whose reconciliation ran to its end, every
\* File entry of the export section is referenced by the FileIndex of at
\* least one row
C30_EveryFileReferenced ==
    (pc = "idle" /\ log.outcome = "committed" /\ log.sync.status = "return0") =>
        Unreferenced(disk_map[opts.entity_option]) = {}

====
